---------------------------- MODULE Spec2Model ----------------------------
(***************************************************************************)
(* A model of 456FileFix.py: organize_files, remove_duplicates,            *)
(* clean_up_empty_folders and generate_summary, sequenced by main, acting  *)
(* on a directory tree.                                                     *)
(*                                                                          *)
(* A name is a sequence of characters, so that str.endswith is computed.   *)
(* A directory is a function from the names it holds to entries; an entry  *)
(* is a regular file (content, readable or not) or a directory.            *)
(***************************************************************************)
EXTENDS Integers, Sequences, FiniteSets, TLC

\* ------------------------------------------------------------- bounds
\* Most regular files at the top level of download_dir before the run.
MaxTop == 2
\* Most entries inside one subdirectory of download_dir before the run.
MaxPre == 1
\* Most regular files and empty directories below download_dir before the run.
MaxItems == 3
\* Most regular files and empty directories before a run with the external actor.
MaxEnvItems == 2
\* Most steps of the external actor (specification SpecEnv only).
MaxExt == 1
\* Most regular files and empty directories below download_dir before a run of
\* either file of the repository (specification SpecVariants only).
MaxVariantItems == 2

\* ------------------------------------------------------------- names
n_aj == <<"a", ".", "j">>
n_bj == <<"b", ".", "j">>
n_dp == <<"d", ".", "p">>
\* contains ".j" but does not end with it: matches no suffix
n_u == <<".", "j", "x">>
n_kj == <<"k", ".", "j">>
n_s == <<"s">>
n_I == <<"I">>
n_D == <<"D">>
n_O == <<"O">>

ext_j == <<".", "j">>
ext_p == <<".", "p">>

\* the contents a file may have
Contents == {"x", "y"}

TopFileNames == {n_aj, n_bj, n_dp, n_u}
DirNames == {n_I, n_D, n_O}

\* ------------------------------------------------------------- entries
EmptyDir == << >>

File(d, r) == [kind |-> "file", data |-> d, readable |-> r, ents |-> EmptyDir]

Dir(e) == [kind |-> "dir", data |-> "", readable |-> TRUE, ents |-> e]

NoEntry == [kind |-> "none", data |-> "", readable |-> TRUE, ents |-> EmptyDir]

\* os.listdir(path) as a set: the names the directory holds
Names(d) == DOMAIN d

\* Path.is_file(): the entry exists and is a regular file
IsFile(d, n) == n \in DOMAIN d /\ d[n].kind = "file"

\* Path.is_dir(): the entry exists and is a directory
IsDir(d, n) == n \in DOMAIN d /\ d[n].kind = "dir"

\* the directory d without the entry n (os.remove, rmdir, the source of a rename)
Without(d, n) == [m \in (DOMAIN d) \ {n} |-> d[m]]

\* the directory d with the entry n set to e (creating or replacing it)
With(d, n, e) == [m \in (DOMAIN d) \cup {n} |-> IF m = n THEN e ELSE d[m]]

\* every order in which os.listdir may return the names of S
Perms(S) ==
    {s \in [1..Cardinality(S) -> S] : \A i, j \in 1..Cardinality(S) : s[i] = s[j] => i = j}

\* hashlib.sha256(bytes).hexdigest(): taken to be free of collisions
sha256(d) == <<"sha256", d>>

\* ------------------------------------------------------------- rules
Rule(n, e) == [name |-> n, exts |-> e]

\* mutant of EndsWith: the suffix found anywhere in the name (suffix in file)
EndsWithAnywhere(name, suf) ==
    \E i \in 1..Len(name) :
        /\ i + Len(suf) - 1 <= Len(name)
        /\ SubSeq(name, i, i + Len(suf) - 1) = suf

\* str.endswith(suffix)
EndsWith(name, suf) ==
    /\ Len(suf) <= Len(name)
    /\ SubSeq(name, Len(name) - Len(suf) + 1, Len(name)) = suf

\* any(file.endswith(extension) for extension in extensions)
Matches(name, exts) == \E i \in 1..Len(exts) : EndsWith(name, exts[i])

\* mutant of Classify: the inner loop without its break, the last matching rule wins
ClassifyLast(name, rules) ==
    LET hits == {i \in 1..Len(rules) : Matches(name, rules[i].exts)}
    IN  IF hits = {} THEN 0 ELSE CHOOSE i \in hits : \A h \in hits : i >= h

\* the index of the first rule, in mapping order, with a matching suffix; 0 if none
\* (the inner for ... break of organize_files)
Classify(name, rules) ==
    LET hits == {i \in 1..Len(rules) : Matches(name, rules[i].exts)}
    IN  IF hits = {} THEN 0 ELSE CHOOSE i \in hits : \A h \in hits : i <= h

\* Counter: a missing key counts 0
Count(c, f) == IF f \in DOMAIN c THEN c[f] ELSE 0

\* file_counts[folder] += 1
Incr(c, f) == With(c, f, Count(c, f) + 1)

\* the configurations: "folders" in mapping order
Cfg1 == << Rule(n_I, <<ext_j>>), Rule(n_D, <<ext_p, ext_j>>) >>
Cfg2 == << Rule(n_D, <<ext_p, ext_j>>), Rule(n_I, <<ext_j>>) >>
Cfg3 == << >>
Configs == {Cfg1, Cfg2, Cfg3}

\* ------------------------------------------------------------- state
VARIABLES
    folders,      \* config['folders']
    dirKey,       \* whether the configuration has the key download_dir
    fs,           \* download_dir: [exists, ents]
    pc,           \* the position of the run
    err,          \* the exception that ended the run, "" if none
    errAt,        \* the position at which it was raised
    run,          \* the number of the current call of organize_files
    file_counts,  \* organize_files: file_counts
    total_files,  \* organize_files: total_files
    progress,     \* organize_files: the number of pbar.update(1) calls
    listing,      \* organize_files: the names returned by the os.listdir of line 42
    todo,         \* organize_files: entries of the listing not yet visited
    cur,          \* organize_files: the entry being moved
    k,            \* remove_duplicates: index of the folder being processed
    files,        \* remove_duplicates: files
    j,            \* remove_duplicates: index into files
    seen,         \* remove_duplicates: seen
    summary,      \* generate_summary: the counts printed, NoSummary before
    fs0,          \* history: fs before the run
    moved,        \* history: the moves made, as [name, folder, run]
    hashed,       \* history: [folder, name] of every file hashed
    deleted,      \* history: [folder, name] of every file os.remove'd
    rmdirs,       \* history: names of the directories removed by clean_up_empty_folders
    passes,       \* history: per folder index, its listing and the folder before and after its pass
    ret1,         \* history: [fs, counts] when the first organize_files returned
    ext,          \* number of steps the external actor has taken
    variant,      \* which of the two files of the repository is run
    cwdIsDl,      \* whether the working directory of the process is download_dir
    cwd           \* the entries of the working directory when it is another directory

vars == <<folders, dirKey, fs, pc, err, errAt, run, file_counts, total_files,
          progress, listing, todo, cur, k, files, j, seen, summary, fs0, moved, hashed, deleted,
          rmdirs, passes, ret1, ext, variant, cwdIsDl, cwd>>

given == <<folders, dirKey, fs0, variant, cwdIsDl>>
ctl == <<folders, dirKey, fs0, variant, cwdIsDl, cwd>>
orgv == <<file_counts, total_files, progress, cur, listing>>
ddv == <<k, files, j, seen>>
hist == <<moved, hashed, deleted, rmdirs, passes, ret1>>

NoSummary == [printed |-> FALSE, counts |-> EmptyDir]
NoRet == [set |-> FALSE, fs |-> [exists |-> FALSE, ents |-> EmptyDir], counts |-> EmptyDir]

\* ------------------------------------------------------------- initial states
\* the regular files of download_dir before the run
TopKinds == {File(d, TRUE) : d \in Contents}

\* the regular files of its subdirectories before the run: one may be unreadable
FileKinds == TopKinds \cup {File("x", FALSE)}

\* a subdirectory s of a directory: empty, or holding a file with a configured suffix
SubKinds == {Dir(EmptyDir), Dir(n_kj :> File("x", TRUE))}

InnerChoices(n) == IF n = n_s THEN SubKinds ELSE FileKinds

\* what a subdirectory of download_dir may hold before the run
DirContents ==
    UNION {{f \in [T -> FileKinds \cup SubKinds] : \A n \in T : f[n] \in InnerChoices(n)} :
             T \in {U \in SUBSET {n_aj, n_kj, n_s} : Cardinality(U) <= MaxPre}}

\* the path of a configured folder before the run: absent, a regular file, or a directory
DirChoices == {NoEntry, File("x", TRUE)} \cup {Dir(c) : c \in DirContents}

\* the directory O, which no rule names: absent, empty, holding a file or a subdirectory
OtherChoices ==
    {NoEntry, Dir(EmptyDir), Dir(n_kj :> File("x", TRUE)), Dir(n_s :> Dir(EmptyDir))}

\* the regular files at the top level of download_dir before the run
TopChoices ==
    UNION {[T -> TopKinds] : T \in {U \in SUBSET TopFileNames : Cardinality(U) <= MaxTop}}

\* the number of regular files and empty directories below the directory d
RECURSIVE Size(_)
Size(d) ==
    IF DOMAIN d = {} THEN 0
    ELSE LET n == CHOOSE m \in DOMAIN d : TRUE
             own == IF d[n].kind = "dir" /\ DOMAIN d[n].ents # {} THEN Size(d[n].ents) ELSE 1
         IN  own + Size(Without(d, n))

Present(f) == [n \in {m \in DOMAIN f : f[m].kind # "none"} |-> f[n]]

\* download_dir holding the files tf and, under I, D and O, the entries dI, dD and dO
Tree(tf, dI, dD, dO) ==
    Present([n \in TopFileNames \cup DirNames |->
               IF n \in DOMAIN tf THEN tf[n]
               ELSE IF n = n_I THEN dI
               ELSE IF n = n_D THEN dD
               ELSE IF n = n_O THEN dO
               ELSE NoEntry])

\* the two files of the repository
Variants == {"456FileFix", "test_4NSIKfilefix"}

\* 456FileFix.py is run; it resolves no path against the working directory
MainVariant ==
    /\ variant = "456FileFix"
    /\ cwdIsDl = TRUE
    /\ cwd = EmptyDir

\* the run has not begun: main is about to be called on the file system fs
NotStarted ==
    /\ pc = "main"
    /\ listing = {}
    /\ err = ""
    /\ errAt = ""
    /\ run = 0
    /\ file_counts = EmptyDir
    /\ total_files = 0
    /\ progress = 0
    /\ todo = {}
    /\ cur = << >>
    /\ k = 0
    /\ files = << >>
    /\ j = 0
    /\ seen = {}
    /\ summary = NoSummary
    /\ fs0 = fs
    /\ moved = {}
    /\ hashed = {}
    /\ deleted = {}
    /\ rmdirs = {}
    /\ passes = << >>
    /\ ret1 = NoRet
    /\ ext = 0

Init ==
    /\ folders \in Configs
    /\ \E st \in {"ok", "nodir", "nokey"} :
         /\ dirKey = (st # "nokey")
         /\ IF st = "ok"
              THEN \E tf \in TopChoices, dI \in DirChoices, dD \in DirChoices,
                      dO \in OtherChoices :
                       /\ Size(Tree(tf, dI, dD, dO)) <= MaxItems
                       /\ fs = [exists |-> TRUE, ents |-> Tree(tf, dI, dD, dO)]
              ELSE fs = [exists |-> FALSE, ents |-> EmptyDir]
    /\ NotStarted
    /\ MainVariant

\* the end-to-end scenario: download_dir holds a file f for folder F, a file g for
\* folder G and the unmatched file u; F holds a file named f with the same bytes;
\* G is absent or empty
Scenarios ==
    {[F |-> n_I, f |-> n_aj, G |-> n_D, g |-> n_dp],
     [F |-> n_I, f |-> n_bj, G |-> n_D, g |-> n_dp],
     [F |-> n_D, f |-> n_dp, G |-> n_I, g |-> n_aj],
     [F |-> n_D, f |-> n_dp, G |-> n_I, g |-> n_bj]}

ScenarioTree(sc, df, dg, du, dG) ==
    Present([n \in TopFileNames \cup DirNames |->
               IF n = sc.f THEN File(df, TRUE)
               ELSE IF n = sc.g THEN File(dg, TRUE)
               ELSE IF n = n_u THEN File(du, TRUE)
               ELSE IF n = sc.F THEN Dir(sc.f :> File(df, TRUE))
               ELSE IF n = sc.G THEN dG
               ELSE NoEntry])

InitScenario ==
    /\ folders = Cfg1
    /\ dirKey = TRUE
    /\ \E sc \in Scenarios, df \in Contents, dg \in Contents, du \in Contents,
          dG \in {NoEntry, Dir(EmptyDir)} :
           fs = [exists |-> TRUE, ents |-> ScenarioTree(sc, df, dg, du, dG)]
    /\ NotStarted
    /\ MainVariant

\* the working directory of a run of test_4NSIKfilefix.py started elsewhere than in
\* download_dir: empty, or holding a folder I with a file
CwdChoices == {EmptyDir, n_I :> Dir(n_kj :> File("x", TRUE))}

\* either file of the repository is run; test_4NSIKfilefix.py is run in download_dir,
\* which then exists, or in another directory
InitVariants ==
    /\ folders \in Configs
    /\ dirKey = TRUE
    /\ \E st \in {"ok", "nodir"} :
         IF st = "ok"
           THEN \E tf \in TopChoices, dI \in DirChoices, dD \in DirChoices,
                   dO \in OtherChoices :
                    /\ Size(Tree(tf, dI, dD, dO)) <= MaxVariantItems
                    /\ fs = [exists |-> TRUE, ents |-> Tree(tf, dI, dD, dO)]
           ELSE fs = [exists |-> FALSE, ents |-> EmptyDir]
    /\ NotStarted
    /\ variant \in Variants
    /\ cwdIsDl \in BOOLEAN
    /\ variant = "456FileFix" => cwdIsDl
    /\ cwdIsDl => fs.exists
    /\ cwd \in (IF cwdIsDl THEN {EmptyDir} ELSE CwdChoices)

\* ------------------------------------------------------------- helpers of the actions
\* an uncaught exception ends the run: no function of the file catches any
Crash(e) ==
    /\ pc' = "crashed"
    /\ err' = e
    /\ errAt' = pc

NoCrash == UNCHANGED <<err, errAt>>

\* the entries of the subdirectory named f of download_dir
Sub(tree, f) == tree[f].ents

\* for folder in folders: if not folder_path.exists(): folder_path.mkdir(parents=True)
\* a path that exists, as a directory or as a regular file, is left as it is
Mkdirs(tree, rules) ==
    LET want == {rules[i].name : i \in 1..Len(rules)}
    IN  [n \in (DOMAIN tree) \cup want |-> IF n \in DOMAIN tree THEN tree[n] ELSE Dir(EmptyDir)]

\* mutant of MoveInto: a destination that is already there is not replaced
MoveIntoNoReplace(tree, n, f) ==
    IF n \in DOMAIN Sub(tree, f) THEN tree
    ELSE With(Without(tree, n), f, Dir(With(Sub(tree, f), n, tree[n])))

\* mutant of MoveInto: a copy, the source stays in download_dir
MoveIntoCopy(tree, n, f) ==
    With(tree, f, Dir(With(Sub(tree, f), n, tree[n])))

\* shutil.move(download_dir/n, download_dir/f/n): a rename that replaces the destination
\* (no directory of the initial states carries the name of a top-level file, so the
\* destination is never an existing directory)
MoveInto(tree, n, f) ==
    With(Without(tree, n), f, Dir(With(Sub(tree, f), n, tree[n])))

\* os.remove(download_dir/f/n)
RemoveIn(tree, f, n) == With(tree, f, Dir(Without(Sub(tree, f), n)))

\* mutant of SeenNew: the set is created once, before the loop over the folders
SeenKept(s) == s

\* line 64, inside the loop over the folders: seen = set()
SeenNew(s) == {}

\* mutant of SeenAdd: the digest is not recorded
SeenAddLost(s, h) == s

\* seen.add(file_hash)
SeenAdd(s, h) == s \cup {h}

\* mutant of IsEmptyDir: a directory that holds only empty directories counts as
\* empty and is removed with them
IsEmptyDirDeep(tree, n) ==
    /\ IsDir(tree, n)
    /\ \A m \in Names(Sub(tree, n)) :
          IsDir(Sub(tree, n), m) /\ Names(Sub(Sub(tree, n), m)) = {}

\* mutant of IsEmptyDir: the test of emptiness is inverted
IsEmptyDirInverted(tree, n) == IsDir(tree, n) /\ Names(Sub(tree, n)) # {}

\* mutant of IsEmptyDir: the test of emptiness is missing
IsEmptyDirUnchecked(tree, n) == IsDir(tree, n)

\* folder_path.is_dir() and not os.listdir(folder_path)
IsEmptyDir(tree, n) == IsDir(tree, n) /\ Names(Sub(tree, n)) = {}

\* ------------------------------------------------------------- main, lines 103-115
\* config = load_config(...); folders = config['folders']; download_dir = config['download_dir']
LoadConfig ==
    /\ pc = "main"
    /\ IF dirKey
         THEN pc' = "org_mkdir" /\ NoCrash
         ELSE Crash("KeyError")
    /\ UNCHANGED <<ctl, fs, run, orgv, todo, ddv, summary, hist, ext>>

\* ------------------------------------------------------------- organize_files, lines 31-57
\* lines 33-36
OrganizeMkdirs ==
    /\ pc = "org_mkdir"
    /\ run' = run + 1
    /\ fs' = IF Len(folders) = 0 THEN fs
             ELSE [exists |-> TRUE, ents |-> Mkdirs(fs.ents, folders)]
    /\ pc' = "org_count"
    /\ NoCrash
    /\ UNCHANGED <<ctl, orgv, todo, ddv, summary, hist, ext>>

\* lines 38-39: file_counts = Counter(); total_files = len(os.listdir(download_dir))
OrganizeCount ==
    /\ pc = "org_count"
    /\ IF fs.exists
         THEN /\ file_counts' = EmptyDir
              /\ total_files' = Cardinality(Names(fs.ents))
              /\ progress' = 0
              /\ pc' = "org_list"
              /\ NoCrash
         ELSE /\ Crash("FileNotFoundError")
              /\ UNCHANGED <<file_counts, total_files, progress>>
    /\ UNCHANGED <<ctl, fs, run, cur, listing, todo, ddv, summary, hist, ext>>

\* line 42: for file in os.listdir(download_dir): the listing is taken once; its
\* order is the file system's, so the loop visits its entries in any order, each once
OrganizeList ==
    /\ pc = "org_list"
    /\ listing' = Names(fs.ents)
    /\ todo' = listing'
    /\ pc' = "org_loop"
    /\ NoCrash
    /\ UNCHANGED <<ctl, fs, run, file_counts, total_files, progress, cur, ddv, summary, hist,
                   ext>>

\* lines 43-46 and 52: is_file(), then the first folder with a matching suffix;
\* an entry that is no regular file, or matches no suffix, only advances the bar
OrganizeCheck(n) ==
    /\ pc = "org_loop"
    /\ n \in todo
    /\ todo' = todo \ {n}
    /\ IF IsFile(fs.ents, n) /\ Classify(n, folders) # 0
         THEN /\ cur' = n
              /\ pc' = "org_move"
              /\ UNCHANGED progress
         ELSE /\ progress' = progress + 1
              /\ UNCHANGED <<cur, pc>>
    /\ NoCrash
    /\ UNCHANGED <<ctl, fs, run, file_counts, total_files, listing, ddv, summary, hist, ext>>

\* lines 47-52: shutil.move, file_counts[folder] += 1, break, pbar.update(1)
OrganizeMove ==
    /\ pc = "org_move"
    /\ LET f == folders[Classify(cur, folders)].name
       IN  IF ~IsFile(fs.ents, cur)
             THEN /\ Crash("FileNotFoundError")
                  /\ UNCHANGED <<fs, file_counts, progress, moved>>
           ELSE IF ~IsDir(fs.ents, f)
             THEN /\ Crash("NotADirectoryError")
                  /\ UNCHANGED <<fs, file_counts, progress, moved>>
           ELSE /\ fs' = [fs EXCEPT !.ents = MoveInto(fs.ents, cur, f)]
                /\ file_counts' = Incr(file_counts, f)
                /\ moved' = moved \cup {[name |-> cur, folder |-> f, run |-> run]}
                /\ progress' = progress + 1
                /\ pc' = "org_loop"
                /\ NoCrash
    /\ UNCHANGED <<ctl, run, total_files, cur, listing, todo, ddv, summary, hashed, deleted,
                   rmdirs, passes, ret1, ext>>

\* lines 53-57: the loop is over, return file_counts
OrganizeReturn ==
    /\ pc = "org_loop"
    /\ todo = {}
    /\ pc' = "org_ret"
    /\ ret1' = IF run = 1 THEN [set |-> TRUE, fs |-> fs, counts |-> file_counts] ELSE ret1
    /\ NoCrash
    /\ UNCHANGED <<ctl, fs, run, orgv, todo, ddv, summary, moved, hashed, deleted, rmdirs,
                   passes, ext>>

\* organize_files called a second time, in succession, with the same arguments,
\* in place of the rest of main; the second return ends that run
OrganizeAgain ==
    /\ pc = "org_ret"
    /\ pc' = IF run = 1 THEN "org_mkdir" ELSE "done"
    /\ NoCrash
    /\ UNCHANGED <<ctl, fs, run, orgv, todo, ddv, summary, hist, ext>>

\* ------------------------------------------------------------- remove_duplicates, lines 59-81
\* main line 113: remove_duplicates(folders, download_dir)
RemoveDuplicates ==
    /\ pc = "org_ret"
    /\ run = 1
    /\ k' = 1
    /\ pc' = "dd_list"
    /\ NoCrash
    /\ UNCHANGED <<ctl, fs, run, orgv, todo, files, j, seen, summary, hist, ext>>

\* lines 61-66: files = os.listdir(folder_path); seen = set()
DedupList ==
    /\ pc = "dd_list"
    /\ k <= Len(folders)
    /\ LET f == folders[k].name
       IN  IF IsDir(fs.ents, f)
             THEN /\ \E s \in Perms(Names(Sub(fs.ents, f))) : files' = s
                  /\ seen' = SeenNew(seen)
                  /\ j' = 1
                  /\ passes' = Append(passes, [folder |-> f, files |-> files',
                                               before |-> Sub(fs.ents, f),
                                               after |-> EmptyDir,
                                               finished |-> FALSE])
                  /\ pc' = "dd_loop"
                  /\ NoCrash
             ELSE /\ Crash(IF f \in DOMAIN fs.ents THEN "NotADirectoryError"
                           ELSE "FileNotFoundError")
                  /\ UNCHANGED <<files, seen, j, passes>>
    /\ UNCHANGED <<ctl, fs, run, orgv, todo, k, summary, moved, hashed, deleted, rmdirs,
                   ret1, ext>>

\* lines 67-77: one entry of files
DedupFile ==
    /\ pc = "dd_loop"
    /\ j <= Len(files)
    /\ LET f == folders[k].name
           n == files[j]
           d == Sub(fs.ents, f)
       IN  IF ~IsFile(d, n)
             THEN /\ j' = j + 1
                  /\ NoCrash
                  /\ UNCHANGED <<fs, seen, hashed, deleted, pc>>
           ELSE IF ~d[n].readable
             THEN /\ Crash("PermissionError")
                  /\ UNCHANGED <<fs, seen, hashed, deleted, j>>
           ELSE /\ hashed' = hashed \cup {[folder |-> f, name |-> n]}
                /\ IF sha256(d[n].data) \in seen
                     THEN /\ fs' = [fs EXCEPT !.ents = RemoveIn(fs.ents, f, n)]
                          /\ deleted' = deleted \cup {[folder |-> f, name |-> n]}
                          /\ UNCHANGED seen
                     ELSE /\ seen' = SeenAdd(seen, sha256(d[n].data))
                          /\ UNCHANGED <<fs, deleted>>
                /\ j' = j + 1
                /\ NoCrash
                /\ UNCHANGED pc
    /\ UNCHANGED <<ctl, run, orgv, todo, k, files, summary, moved, rmdirs, passes, ret1, ext>>

\* lines 78-81, then the next folder of line 61
DedupNext ==
    /\ pc = "dd_loop"
    /\ j > Len(files)
    /\ passes' = [passes EXCEPT ![k].finished = TRUE,
                                 ![k].after = Sub(fs.ents, folders[k].name)]
    /\ k' = k + 1
    /\ pc' = "dd_list"
    /\ NoCrash
    /\ UNCHANGED <<ctl, fs, run, orgv, todo, files, j, seen, summary, moved, hashed, deleted,
                   rmdirs, ret1, ext>>

\* ------------------------------------------------------------- clean_up_empty_folders, lines 83-89
\* mutant of CleanUpEmptyFolders: main calls clean_up_empty_folders right after
\* organize_files
CleanUpEmptyFoldersEarly ==
    /\ pc = "org_ret"
    /\ run = 1
    /\ LET empty == {n \in Names(fs.ents) : IsEmptyDir(fs.ents, n)}
       IN  /\ fs' = [fs EXCEPT !.ents = [n \in (DOMAIN fs.ents) \ empty |-> fs.ents[n]]]
           /\ rmdirs' = empty
    /\ pc' = "summary"
    /\ NoCrash
    /\ UNCHANGED <<ctl, run, orgv, todo, ddv, summary, moved, hashed, deleted, passes, ret1, ext>>

\* mutant of CleanUpEmptyFolders: only the folders named by a rule are examined
CleanUpConfiguredFolders ==
    /\ pc = "dd_list"
    /\ k > Len(folders)
    /\ LET empty == {n \in Names(fs.ents) :
                        /\ IsEmptyDir(fs.ents, n)
                        /\ \E i \in 1..Len(folders) : folders[i].name = n}
       IN  /\ fs' = [fs EXCEPT !.ents = [n \in (DOMAIN fs.ents) \ empty |-> fs.ents[n]]]
           /\ rmdirs' = empty
    /\ pc' = "summary"
    /\ NoCrash
    /\ UNCHANGED <<ctl, run, orgv, todo, ddv, summary, moved, hashed, deleted, passes, ret1, ext>>

\* remove_duplicates returns; main line 114; lines 85-89: every entry of the listing of
\* download_dir that is an empty directory is removed (the removal of one entry does
\* not change what the test finds for another, so the order of the listing is immaterial)
CleanUpEmptyFolders ==
    /\ pc = "dd_list"
    /\ k > Len(folders)
    /\ LET empty == {n \in Names(fs.ents) : IsEmptyDir(fs.ents, n)}
       IN  /\ fs' = [fs EXCEPT !.ents = [n \in (DOMAIN fs.ents) \ empty |-> fs.ents[n]]]
           /\ rmdirs' = empty
    /\ pc' = "summary"
    /\ NoCrash
    /\ UNCHANGED <<ctl, run, orgv, todo, ddv, summary, moved, hashed, deleted, passes, ret1, ext>>

\* ------------------------------------------------------------- generate_summary, lines 91-101
\* clean_up_empty_folders returns; main line 115
GenerateSummary ==
    /\ pc = "summary"
    /\ summary' = [printed |-> TRUE, counts |-> file_counts]
    /\ pc' = "done"
    /\ NoCrash
    /\ UNCHANGED <<ctl, fs, run, orgv, todo, ddv, hist, ext>>

\* ------------------------------------------------------------- test_4NSIKfilefix.py
\* The functions of test_4NSIKfilefix.py that differ from 456FileFix.py: a folder name
\* is resolved against the working directory of the process, Path(folder), where
\* 456FileFix.py has Path(download_dir) / folder. A world is the pair of trees of
\* download_dir and of the working directory; they are one tree when same is true.
World == [dl |-> fs.ents, wd |-> cwd, same |-> cwdIsDl]

\* mutant of WdTree: the working directory is read as another directory than
\* download_dir even when it is download_dir
WdTreeApart(w) == w.wd

\* the entries of the working directory
WdTree(w) == IF w.same THEN w.dl ELSE w.wd

\* the world after the entries of the working directory have become t
WdPut(w, t) == IF w.same THEN [w EXCEPT !.dl = t] ELSE [w EXCEPT !.wd = t]

\* shutil.move(download_dir/n, f/n): the entry leaves download_dir and replaces f/n
\* in the working directory
MoveIntoCwd(w, n, f) ==
    LET e == w.dl[n]
        w1 == [w EXCEPT !.dl = Without(w.dl, n)]
    IN  WdPut(w1, With(WdTree(w1), f, Dir(With(Sub(WdTree(w1), f), n, e))))

\* the file system and the working directory become those of the world w
Becomes(w) ==
    /\ fs' = [fs EXCEPT !.ents = w.dl]
    /\ cwd' = w.wd

\* lines 33-35: if not Path(folder).exists(): Path(folder).mkdir(parents=True)
OrganizeMkdirsCwd ==
    /\ pc = "org_mkdir"
    /\ run' = run + 1
    /\ Becomes(WdPut(World, Mkdirs(WdTree(World), folders)))
    /\ pc' = "org_count"
    /\ NoCrash
    /\ UNCHANGED <<given, orgv, todo, ddv, summary, hist, ext>>

\* lines 46-51: destination_path = Path(folder) / file; shutil.move; the count; break
OrganizeMoveCwd ==
    /\ pc = "org_move"
    /\ LET f == folders[Classify(cur, folders)].name
       IN  IF ~IsFile(fs.ents, cur)
             THEN /\ Crash("FileNotFoundError")
                  /\ UNCHANGED <<fs, cwd, file_counts, progress, moved>>
           ELSE IF ~IsDir(WdTree(World), f)
             THEN /\ Crash("NotADirectoryError")
                  /\ UNCHANGED <<fs, cwd, file_counts, progress, moved>>
           ELSE /\ Becomes(MoveIntoCwd(World, cur, f))
                /\ file_counts' = Incr(file_counts, f)
                /\ moved' = moved \cup {[name |-> cur, folder |-> f, run |-> run]}
                /\ progress' = progress + 1
                /\ pc' = "org_loop"
                /\ NoCrash
    /\ UNCHANGED <<given, run, total_files, cur, listing, todo, ddv, summary, hashed, deleted,
                   rmdirs, passes, ret1, ext>>

\* lines 60-64: files = os.listdir(folder); seen = set()
DedupListCwd ==
    /\ pc = "dd_list"
    /\ k <= Len(folders)
    /\ LET f == folders[k].name
           t == WdTree(World)
       IN  IF IsDir(t, f)
             THEN /\ \E s \in Perms(Names(Sub(t, f))) : files' = s
                  /\ seen' = SeenNew(seen)
                  /\ j' = 1
                  /\ passes' = Append(passes, [folder |-> f, files |-> files',
                                               before |-> Sub(t, f),
                                               after |-> EmptyDir,
                                               finished |-> FALSE])
                  /\ pc' = "dd_loop"
                  /\ NoCrash
             ELSE /\ Crash(IF f \in DOMAIN t THEN "NotADirectoryError"
                           ELSE "FileNotFoundError")
                  /\ UNCHANGED <<files, seen, j, passes>>
    /\ UNCHANGED <<ctl, fs, run, orgv, todo, k, summary, moved, hashed, deleted, rmdirs,
                   ret1, ext>>

\* lines 65-75: one entry of files, at Path(folder) / file
DedupFileCwd ==
    /\ pc = "dd_loop"
    /\ j <= Len(files)
    /\ LET f == folders[k].name
           n == files[j]
           d == Sub(WdTree(World), f)
       IN  IF ~IsFile(d, n)
             THEN /\ j' = j + 1
                  /\ NoCrash
                  /\ UNCHANGED <<fs, cwd, seen, hashed, deleted, pc>>
           ELSE IF ~d[n].readable
             THEN /\ Crash("PermissionError")
                  /\ UNCHANGED <<fs, cwd, seen, hashed, deleted, j>>
           ELSE /\ hashed' = hashed \cup {[folder |-> f, name |-> n]}
                /\ IF sha256(d[n].data) \in seen
                     THEN /\ Becomes(WdPut(World, RemoveIn(WdTree(World), f, n)))
                          /\ deleted' = deleted \cup {[folder |-> f, name |-> n]}
                          /\ UNCHANGED seen
                     ELSE /\ seen' = SeenAdd(seen, sha256(d[n].data))
                          /\ UNCHANGED <<fs, cwd, deleted>>
                /\ j' = j + 1
                /\ NoCrash
                /\ UNCHANGED pc
    /\ UNCHANGED <<given, run, orgv, todo, k, files, summary, moved, rmdirs, passes, ret1, ext>>

\* lines 76-79, then the next folder of line 60
DedupNextCwd ==
    /\ pc = "dd_loop"
    /\ j > Len(files)
    /\ passes' = [passes EXCEPT ![k].finished = TRUE,
                                 ![k].after = Sub(WdTree(World), folders[k].name)]
    /\ k' = k + 1
    /\ pc' = "dd_list"
    /\ NoCrash
    /\ UNCHANGED <<ctl, fs, run, orgv, todo, files, j, seen, summary, moved, hashed, deleted,
                   rmdirs, ret1, ext>>

\* main line 111; lines 83-86: every entry of os.listdir(), the listing of the working
\* directory, that is an empty directory is removed
CleanUpEmptyFoldersCwd ==
    /\ pc = "dd_list"
    /\ k > Len(folders)
    /\ LET t == WdTree(World)
           empty == {n \in Names(t) : IsEmptyDir(t, n)}
       IN  /\ Becomes(WdPut(World, [n \in (DOMAIN t) \ empty |-> t[n]]))
           /\ rmdirs' = empty
    /\ pc' = "summary"
    /\ NoCrash
    /\ UNCHANGED <<given, run, orgv, todo, ddv, summary, moved, hashed, deleted, passes, ret1, ext>>

\* ------------------------------------------------------------- the external actor
\* another process removes a regular file from the top level of download_dir
\* while organize_files runs
ExtRemove(n) ==
    /\ pc \in {"org_count", "org_list", "org_loop", "org_move"}
    /\ ext < MaxExt
    /\ IsFile(fs.ents, n)
    /\ fs' = [fs EXCEPT !.ents = Without(fs.ents, n)]
    /\ ext' = ext + 1
    /\ UNCHANGED <<ctl, pc, err, errAt, run, orgv, todo, ddv, summary, hist>>

\* another process creates a regular file at the top level of download_dir
\* while organize_files runs
ExtCreate(n) ==
    /\ pc \in {"org_count", "org_list", "org_loop", "org_move"}
    /\ ext < MaxExt
    /\ fs.exists
    /\ n \in TopFileNames \ DOMAIN fs.ents
    /\ fs' = [fs EXCEPT !.ents = With(fs.ents, n, File("x", TRUE))]
    /\ ext' = ext + 1
    /\ UNCHANGED <<ctl, pc, err, errAt, run, orgv, todo, ddv, summary, hist>>

\* ------------------------------------------------------------- specifications
Next ==
    \/ LoadConfig
    \/ OrganizeMkdirs
    \/ OrganizeCount
    \/ OrganizeList
    \/ \E n \in todo : OrganizeCheck(n)
    \/ OrganizeMove
    \/ OrganizeReturn
    \/ OrganizeAgain
    \/ RemoveDuplicates
    \/ DedupList
    \/ DedupFile
    \/ DedupNext
    \/ CleanUpEmptyFolders
    \/ GenerateSummary

\* the run with exclusive access to download_dir
Spec == Init /\ [][Next]_vars

NextEnv ==
    \/ Next
    \/ \E n \in TopFileNames : ExtRemove(n)
    \/ \E n \in TopFileNames : ExtCreate(n)

\* the run with an external actor changing download_dir during organize_files
InitEnv == Init /\ Size(fs.ents) <= MaxEnvItems

SpecEnv == InitEnv /\ [][NextEnv]_vars

\* main of test_4NSIKfilefix.py; what the two files have in common is modelled once
NextTest ==
    \/ LoadConfig
    \/ OrganizeMkdirsCwd
    \/ OrganizeCount
    \/ OrganizeList
    \/ \E n \in todo : OrganizeCheck(n)
    \/ OrganizeMoveCwd
    \/ OrganizeReturn
    \/ OrganizeAgain
    \/ RemoveDuplicates
    \/ DedupListCwd
    \/ DedupFileCwd
    \/ DedupNextCwd
    \/ CleanUpEmptyFoldersCwd
    \/ GenerateSummary

\* the steps of the file that is run: those of Next for 456FileFix.py, those of
\* NextTest for test_4NSIKfilefix.py
NextVariants ==
    \/ LoadConfig
    \/ OrganizeCount
    \/ OrganizeList
    \/ \E n \in todo : OrganizeCheck(n)
    \/ OrganizeReturn
    \/ OrganizeAgain
    \/ RemoveDuplicates
    \/ GenerateSummary
    \/ variant = "456FileFix" /\ OrganizeMkdirs
    \/ variant = "456FileFix" /\ OrganizeMove
    \/ variant = "456FileFix" /\ DedupList
    \/ variant = "456FileFix" /\ DedupFile
    \/ variant = "456FileFix" /\ DedupNext
    \/ variant = "456FileFix" /\ CleanUpEmptyFolders
    \/ variant = "test_4NSIKfilefix" /\ OrganizeMkdirsCwd
    \/ variant = "test_4NSIKfilefix" /\ OrganizeMoveCwd
    \/ variant = "test_4NSIKfilefix" /\ DedupListCwd
    \/ variant = "test_4NSIKfilefix" /\ DedupFileCwd
    \/ variant = "test_4NSIKfilefix" /\ DedupNextCwd
    \/ variant = "test_4NSIKfilefix" /\ CleanUpEmptyFoldersCwd

\* a run of either file of the repository, with exclusive access
SpecVariants == InitVariants /\ [][NextVariants]_vars

\* the run, with exclusive access, on the end-to-end scenario
SpecScenario == InitScenario /\ [][Next]_vars

\* ------------------------------------------------------------- properties
\* the name is some prefix followed by the suffix
HasSuffix(name, suf) == \E i \in 0..Len(name) : SubSeq(name, 1, i) \o suf = name

\* the name ends with at least one suffix configured for folder i
SuffixOf(name, i) == \E x \in 1..Len(folders[i].exts) : HasSuffix(name, folders[i].exts[x])

\* the regular files at the top level of download_dir before the run for which
\* folder i is the first, in mapping order, with a matching suffix
Routed(i) ==
    {n \in DOMAIN fs0.ents :
        /\ IsFile(fs0.ents, n)
        /\ SuffixOf(n, i)
        /\ \A h \in 1..(i - 1) : ~SuffixOf(n, h)}

Terminated == pc \in {"done", "crashed"}

C2_FirstListedSurvives ==
    \A i \in 1..Len(passes) :
        LET p == passes[i]
            isf(x) == IsFile(p.before, p.files[x])
            dig(x) == sha256(p.before[p.files[x]].data)
        IN  p.finished =>
              /\ \A n, m \in DOMAIN p.after :
                     (n # m /\ IsFile(p.after, n) /\ IsFile(p.after, m))
                         => sha256(p.after[n].data) # sha256(p.after[m].data)
              /\ \A x \in 1..Len(p.files) :
                     isf(x) =>
                         IF \E y \in 1..(x - 1) : isf(y) /\ dig(y) = dig(x)
                           THEN p.files[x] \notin DOMAIN p.after
                           ELSE /\ p.files[x] \in DOMAIN p.after
                                /\ p.after[p.files[x]] = p.before[p.files[x]]

\* C2 witness: a finished pass over a folder that listed two regular files of the same
\* content and a third entry, and deleted one file
C2_Witness ==
    \E i \in 1..Len(passes) :
        /\ passes[i].finished
        /\ Len(passes[i].files) >= 3
        /\ \E n, m \in DOMAIN passes[i].before :
               /\ n # m
               /\ IsFile(passes[i].before, n) /\ IsFile(passes[i].before, m)
               /\ passes[i].before[n].data = passes[i].before[m].data
        /\ Cardinality({d \in deleted : d.folder = passes[i].folder}) = 1

\* C3: a regular file at the top level of download_dir that ends with no configured
\* suffix is, at every point of the run, still there with the same content.
C3_UnmatchedUntouched ==
    \A n \in DOMAIN fs0.ents :
        (IsFile(fs0.ents, n) /\ \A i \in 1..Len(folders) : ~SuffixOf(n, i))
            => (n \in DOMAIN fs.ents /\ fs.ents[n] = fs0.ents[n])

\* C3 witness: main is over, having moved and deleted files and removed a directory,
\* and the file ".jx" was at the top level before the run, with rules configured
C3_Witness ==
    /\ pc = "done"
    /\ summary.printed
    /\ IsFile(fs0.ents, n_u)
    /\ Len(folders) > 0
    /\ moved # {}
    /\ deleted # {}
    /\ rmdirs # {}

\* C4: the second of two organize_files calls in succession leaves the file system as
\* the first returned it, moves nothing, and returns a count of zero for every folder.
C4_SecondRunIdle ==
    run = 2 =>
        /\ fs = ret1.fs
        /\ {m \in moved : m.run = 2} = {}
        /\ pc \in {"org_ret", "done"}
              => \A i \in 1..Len(folders) : Count(file_counts, folders[i].name) = 0

\* C4 witness: the second call has returned, after a first call that moved two files
C4_Witness ==
    /\ run = 2
    /\ pc = "done"
    /\ \E i \in 1..Len(folders) : Count(ret1.counts, folders[i].name) = 2

\* C5: clean_up_empty_folders adds nothing to download_dir and takes from it only
\* immediate entries that are directories without entries; every other entry, regular
\* file or directory with an entry, is afterwards as it was, contents included.
C5_CleanupOnlyEmpty ==
    [][(pc' = "summary" \/ rmdirs' # rmdirs) =>
         /\ fs'.exists = fs.exists
         /\ DOMAIN fs'.ents \subseteq DOMAIN fs.ents
         /\ \A n \in DOMAIN fs.ents :
                \/ n \in DOMAIN fs'.ents /\ fs'.ents[n] = fs.ents[n]
                \/ fs.ents[n].kind = "dir" /\ DOMAIN fs.ents[n].ents = {}]_vars

\* C5 witness: cleanup removed a directory and left a directory with an entry and a
\* regular file in download_dir
C5_Witness ==
    /\ pc = "done"
    /\ rmdirs # {}
    /\ \E n \in DOMAIN fs.ents : IsDir(fs.ents, n) /\ Names(Sub(fs.ents, n)) # {}
    /\ \E n \in DOMAIN fs.ents : IsFile(fs.ents, n)

\* every configured folder has had its pass, in configuration order
AllDeduplicated ==
    /\ Len(passes) = Len(folders)
    /\ \A i \in 1..Len(passes) : passes[i].finished /\ passes[i].folder = folders[i].name

\* C6: in main, nothing is listed, hashed or deleted by remove_duplicates before
\* organize_files has visited its whole listing and returned; cleanup lists and
\* removes only after every configured folder has had its pass, in configuration
\* order; the summary is printed only when cleanup has returned;
\* and every file organize_files moved is in the listing of its destination folder.
C6_StagesInOrder ==
    /\ [](  /\ (pc \in {"dd_list", "dd_loop"} \/ passes # << >> \/ hashed # {} \/ deleted # {})
                  => (ret1.set /\ run = 1
                      /\ pc \notin {"main", "org_mkdir", "org_count", "org_list", "org_loop", "org_move"})
            /\ (pc = "summary" \/ rmdirs # {}) => AllDeduplicated
            /\ summary.printed => (AllDeduplicated /\ pc = "done")
            /\ \A i \in 1..Len(passes) : \A m \in moved :
                   m.folder = passes[i].folder
                       => \E x \in 1..Len(passes[i].files) : passes[i].files[x] = m.name)
    /\ [][(summary'.printed /\ ~summary.printed) => pc = "summary"]_vars
    /\ [][(passes' # passes /\ passes = << >>) => (pc = "dd_list" /\ ret1.set /\ todo = {})]_vars

\* C6 witness: main is over after moving, hashing, deleting, removing a directory and
\* printing the summary
C6_Witness ==
    /\ pc = "done"
    /\ summary.printed
    /\ moved # {}
    /\ hashed # {}
    /\ deleted # {}
    /\ rmdirs # {}
    /\ Len(folders) = 2

\* C7: a file of a folder that cannot be read for hashing is skipped and the pass goes
\* on: the run is never ended by the read of an unreadable file.
C7_UnreadableSkipped ==
    ~(pc = "crashed" /\ errAt = "dd_loop" /\ err = "PermissionError")

\* C8: when the run is over and remove_duplicates failed on a folder, every later
\* folder has had its pass and the summary has been printed.
C8_FolderFailureIsolated ==
    (pc = "crashed" /\ errAt \in {"dd_list", "dd_loop"})
        => /\ \A i \in (k + 1)..Len(folders) :
                  \E x \in 1..Len(passes) : passes[x].folder = folders[i].name /\ passes[x].finished
           /\ summary.printed

\* the configuration is invalid: no download_dir, a download_dir that does not exist,
\* or no folders
InvalidConfig == ~dirKey \/ ~fs0.exists \/ Len(folders) = 0

\* C9: with an invalid configuration main (organize_files called once) changes
\* nothing in the file system, and it ends with an error.
C9_InvalidConfigAborts ==
    (run < 2 /\ InvalidConfig) => (fs = fs0 /\ (Terminated => pc = "crashed"))

\* C10: a file that disappears between the listing and its move is skipped: the move
\* of a vanished file never ends the run.
C10_VanishedSkipped ==
    ~(pc = "crashed" /\ errAt = "org_move" /\ err = "FileNotFoundError")

\* C11: when main is over on a download_dir that held exactly one file f routed to
\* folder F and one file g routed to folder G, with F holding only a file named f of
\* the same bytes and G absent or empty, and an unmatched file u: F holds f with its
\* bytes and no other regular file, G holds g, u is in download_dir as it was, F and
\* G are directories, and the counts printed are exactly F: 1 and G: 1.
C11_EndToEnd ==
    (pc = "done" /\ summary.printed) =>
        \A i, h \in 1..Len(folders) : \A f, g, u \in DOMAIN fs0.ents :
            LET F == folders[i].name
                G == folders[h].name
            IN  ( /\ i # h
                  /\ Routed(i) = {f}
                  /\ Routed(h) = {g}
                  /\ IsFile(fs0.ents, u)
                  /\ \A x \in 1..Len(folders) : ~SuffixOf(u, x)
                  /\ IsDir(fs0.ents, F)
                  /\ DOMAIN Sub(fs0.ents, F) = {f}
                  /\ Sub(fs0.ents, F)[f] = fs0.ents[f]
                  /\ (G \notin DOMAIN fs0.ents
                         \/ (IsDir(fs0.ents, G) /\ DOMAIN Sub(fs0.ents, G) = {})) )
                => /\ IsDir(fs.ents, F)
                   /\ IsDir(fs.ents, G)
                   /\ DOMAIN Sub(fs.ents, F) = {f}
                   /\ Sub(fs.ents, F)[f] = fs0.ents[f]
                   /\ DOMAIN Sub(fs.ents, G) = {g}
                   /\ Sub(fs.ents, G)[g] = fs0.ents[g]
                   /\ u \in DOMAIN fs.ents
                   /\ fs.ents[u] = fs0.ents[u]
                   /\ DOMAIN summary.counts = {F, G}
                   /\ summary.counts[F] = 1
                   /\ summary.counts[G] = 1

\* C11 witness: main is over on the scenario with F = I, f = "a.j", G = D, g = "d.p"
\* and u = ".jx", D absent before the run
C11_Witness ==
    /\ pc = "done"
    /\ summary.printed
    /\ folders = Cfg1
    /\ DOMAIN fs0.ents = {n_aj, n_dp, n_u, n_I}
    /\ IsDir(fs0.ents, n_I)
    /\ DOMAIN Sub(fs0.ents, n_I) = {n_aj}
    /\ Sub(fs0.ents, n_I)[n_aj] = fs0.ents[n_aj]
    /\ moved = {[name |-> n_aj, folder |-> n_I, run |-> 1],
                [name |-> n_dp, folder |-> n_D, run |-> 1]}

\* C12: when main is over, a configured folder that was absent or an empty directory
\* before the run and into which no file was moved was a directory when the first
\* organize_files returned, was removed by clean_up_empty_folders and does not exist.
C12_UnusedFolderRemoved ==
    (pc = "done" /\ summary.printed) =>
        \A i \in 1..Len(folders) :
            LET f == folders[i].name
            IN  ( /\ (f \notin DOMAIN fs0.ents
                         \/ (IsDir(fs0.ents, f) /\ DOMAIN Sub(fs0.ents, f) = {}))
                  /\ \A m \in moved : m.folder # f )
                => /\ IsDir(ret1.fs.ents, f)
                   /\ f \in rmdirs
                   /\ f \notin DOMAIN fs.ents

\* C12 witness: main is over; a configured folder absent before the run received no
\* file and is absent again, while the other folder received a file and is there
C12_Witness ==
    /\ pc = "done"
    /\ summary.printed
    /\ \E i, h \in 1..Len(folders) :
          /\ folders[i].name \notin DOMAIN fs0.ents
          /\ \A m \in moved : m.folder # folders[i].name
          /\ folders[i].name \in DOMAIN ret1.fs.ents
          /\ folders[i].name \notin DOMAIN fs.ents
          /\ \E m \in moved : m.folder = folders[h].name
          /\ folders[h].name \in DOMAIN fs.ents

\* C13: a step of organize_files that moves the file cur to folder f where f held a
\* regular file of the same name with other content leaves cur's entry, content
\* included, at f/cur, removes cur from the top level of download_dir, adds one to
\* f's count, and changes nothing else: no entry is created, so the content that
\* f/cur held is kept under no name.
C13_MoveOverwrites ==
    [][ (pc = "org_move" /\ pc' = "org_loop") =>
          \A i \in 1..Len(folders) :
              LET f == folders[i].name
              IN  ( /\ [name |-> cur, folder |-> f, run |-> run] \in moved'
                    /\ IsFile(fs.ents, cur)
                    /\ IsDir(fs.ents, f)
                    /\ IsFile(Sub(fs.ents, f), cur)
                    /\ Sub(fs.ents, f)[cur].data # fs.ents[cur].data )
                  => /\ IsDir(fs'.ents, f)
                     /\ IsFile(Sub(fs'.ents, f), cur)
                     /\ Sub(fs'.ents, f)[cur] = fs.ents[cur]
                     /\ cur \notin DOMAIN fs'.ents
                     /\ DOMAIN fs'.ents = (DOMAIN fs.ents) \ {cur}
                     /\ \A n \in (DOMAIN fs'.ents) \ {f} : fs'.ents[n] = fs.ents[n]
                     /\ DOMAIN Sub(fs'.ents, f) = DOMAIN Sub(fs.ents, f)
                     /\ \A n \in (DOMAIN Sub(fs'.ents, f)) \ {cur} :
                            Sub(fs'.ents, f)[n] = Sub(fs.ents, f)[n]
                     /\ Count(file_counts', f) = Count(file_counts, f) + 1 ]_vars

\* C13 witness: the first organize_files moved a file to a folder that held, before
\* the run, a regular file of that name with other content, and the folder now holds
\* the moved content under that name
C13_Witness ==
    \E m \in moved :
        /\ m.run = 1
        /\ IsFile(fs0.ents, m.name)
        /\ IsDir(fs0.ents, m.folder)
        /\ IsFile(Sub(fs0.ents, m.folder), m.name)
        /\ Sub(fs0.ents, m.folder)[m.name].data # fs0.ents[m.name].data
        /\ IsDir(fs.ents, m.folder)
        /\ IsFile(Sub(fs.ents, m.folder), m.name)
        /\ Sub(fs.ents, m.folder)[m.name].data = fs0.ents[m.name].data

\* C14: organize_files takes one listing of download_dir and works from it: once the
\* loop has its listing, the total reported is the number of entries of that listing;
\* every file moved by the current call is an entry of it; and when the call returns,
\* the number of entries the loop went through is the total reported.
C14_SingleListing ==
    /\ pc \in {"org_loop", "org_move", "org_ret"} => total_files = Cardinality(listing)
    /\ pc \in {"org_loop", "org_move", "org_ret"} =>
           \A m \in moved : m.run = run => m.name \in listing
    /\ pc = "org_ret" => progress = total_files

\* C15: whenever organize_files is about to move the file cur, the folder it is
\* routed to is a directory of download_dir, and no move ends the run for want of
\* its destination directory.
C15_DestinationIsDirectory ==
    /\ pc = "org_move" => IsDir(fs.ents, folders[Classify(cur, folders)].name)
    /\ ~(pc = "crashed" /\ errAt = "org_move" /\ err = "NotADirectoryError")

\* C16: every file deleted by remove_duplicates was listed, in the pass of its own
\* folder, after a regular file of that folder with the same content; and when main
\* is over, a file that a configured folder held after organize_files with content
\* no other file of that folder had is still there, whatever the other folders hold.
C16_SeenPerFolder ==
    /\ \A d \in deleted :
          \E p \in 1..Len(passes) :
              /\ passes[p].folder = d.folder
              /\ \E a, b \in 1..Len(passes[p].files) :
                    /\ a < b
                    /\ passes[p].files[b] = d.name
                    /\ IsFile(passes[p].before, passes[p].files[a])
                    /\ IsFile(passes[p].before, d.name)
                    /\ passes[p].before[passes[p].files[a]].data
                         = passes[p].before[d.name].data
    /\ (pc = "done" /\ summary.printed) =>
          \A i \in 1..Len(folders) :
              LET f == folders[i].name
                  was == Sub(ret1.fs.ents, f)
              IN  \A n \in DOMAIN was :
                      ( /\ IsFile(was, n)
                        /\ \A m \in (DOMAIN was) \ {n} :
                               IsFile(was, m) => was[m].data # was[n].data )
                      => /\ IsDir(fs.ents, f)
                         /\ IsFile(Sub(fs.ents, f), n)
                         /\ Sub(fs.ents, f)[n] = was[n]

\* C16 witness: main is over; the two configured folders each hold a file that was
\* hashed, the two files have the same content, and another file was deleted
C16_Witness ==
    /\ pc = "done"
    /\ summary.printed
    /\ Len(folders) = 2
    /\ IsDir(fs.ents, folders[1].name)
    /\ IsDir(fs.ents, folders[2].name)
    /\ \E n \in DOMAIN Sub(fs.ents, folders[1].name), m \in DOMAIN Sub(fs.ents, folders[2].name) :
          /\ IsFile(Sub(fs.ents, folders[1].name), n)
          /\ IsFile(Sub(fs.ents, folders[2].name), m)
          /\ Sub(fs.ents, folders[1].name)[n].data = Sub(fs.ents, folders[2].name)[m].data
          /\ [folder |-> folders[1].name, name |-> n] \in hashed
          /\ [folder |-> folders[2].name, name |-> m] \in hashed
    /\ deleted # {}

\* C17: at every moment of the run, a directory that lay inside a top-level directory
\* of download_dir before the run is still there with everything it held, empty or
\* not; a non-empty top-level directory that no rule names is as it was, the files it
\* holds included; and every file moved was a regular file at the top level of
\* download_dir.
C17_NothingBelowTopLevel ==
    /\ \A d \in DOMAIN fs0.ents :
          IsDir(fs0.ents, d) =>
              \A s \in DOMAIN Sub(fs0.ents, d) :
                  IsDir(Sub(fs0.ents, d), s) =>
                      /\ IsDir(fs.ents, d)
                      /\ s \in DOMAIN Sub(fs.ents, d)
                      /\ Sub(fs.ents, d)[s] = Sub(fs0.ents, d)[s]
    /\ \A d \in DOMAIN fs0.ents :
          ( /\ IsDir(fs0.ents, d)
            /\ DOMAIN Sub(fs0.ents, d) # {}
            /\ \A i \in 1..Len(folders) : folders[i].name # d )
          => (d \in DOMAIN fs.ents /\ fs.ents[d] = fs0.ents[d])
    /\ \A m \in moved : IsFile(fs0.ents, m.name)

\* C17 witness: main is over after a move, a hash and the removal of a directory;
\* the directory no rule names still holds its empty subdirectory, and a configured
\* folder still holds its subdirectory with a file whose name ends with a configured
\* suffix
C17_Witness ==
    /\ pc = "done"
    /\ summary.printed
    /\ moved # {}
    /\ hashed # {}
    /\ rmdirs # {}
    /\ IsDir(fs.ents, n_O)
    /\ IsDir(Sub(fs.ents, n_O), n_s)
    /\ DOMAIN Sub(Sub(fs.ents, n_O), n_s) = {}
    /\ \E i \in 1..Len(folders) :
          /\ IsDir(fs.ents, folders[i].name)
          /\ IsDir(Sub(fs.ents, folders[i].name), n_s)
          /\ IsFile(Sub(Sub(fs.ents, folders[i].name), n_s), n_kj)
          /\ SuffixOf(n_kj, i)

\* C19: a pass of remove_duplicates over a folder that held a regular file leaves it
\* holding one; and when main is over, every configured folder that held a regular
\* file when organize_files returned, every folder with a count above zero among
\* them, is a directory holding a regular file and was not removed by
\* clean_up_empty_folders.
C19_FolderWithFileSurvives ==
    /\ \A p \in 1..Len(passes) :
          (passes[p].finished /\ \E n \in DOMAIN passes[p].before : IsFile(passes[p].before, n))
          => \E n \in DOMAIN passes[p].after : IsFile(passes[p].after, n)
    /\ (pc = "done" /\ summary.printed) =>
          \A i \in 1..Len(folders) :
              LET f == folders[i].name
                  kept == /\ IsDir(fs.ents, f)
                          /\ \E n \in DOMAIN Sub(fs.ents, f) : IsFile(Sub(fs.ents, f), n)
                          /\ f \notin rmdirs
              IN  /\ ( /\ IsDir(ret1.fs.ents, f)
                        /\ \E n \in DOMAIN Sub(ret1.fs.ents, f) : IsFile(Sub(ret1.fs.ents, f), n) )
                      => kept
                  /\ Count(summary.counts, f) > 0 => kept

\* C19 witness: main is over; a folder with a count above zero lost a file to
\* remove_duplicates and still holds a regular file
C19_Witness ==
    /\ pc = "done"
    /\ summary.printed
    /\ \E i \in 1..Len(folders) :
          /\ Count(summary.counts, folders[i].name) > 0
          /\ \E d \in deleted : d.folder = folders[i].name
          /\ IsDir(fs.ents, folders[i].name)
          /\ \E n \in DOMAIN Sub(fs.ents, folders[i].name) : IsFile(Sub(fs.ents, folders[i].name), n)

\* C20: once clean_up_empty_folders has returned in main, no immediate entry of
\* download_dir is an empty directory; and a directory that no rule names and that
\* was empty before the run has been removed and is not there.
C20_CleanupAnyEmptyDirectory ==
    (pc = "summary" \/ (pc = "done" /\ summary.printed)) =>
        /\ \A n \in DOMAIN fs.ents : ~(fs.ents[n].kind = "dir" /\ DOMAIN fs.ents[n].ents = {})
        /\ \A d \in DOMAIN fs0.ents :
              ( /\ fs0.ents[d].kind = "dir"
                /\ DOMAIN fs0.ents[d].ents = {}
                /\ \A i \in 1..Len(folders) : folders[i].name # d )
              => (d \in rmdirs /\ d \notin DOMAIN fs.ents)

\* C20 witness: main is over; the directory O, named by no rule and empty before the
\* run, was removed, and a file was moved in the run
C20_Witness ==
    /\ pc = "done"
    /\ summary.printed
    /\ Len(folders) > 0
    /\ IsDir(fs0.ents, n_O)
    /\ DOMAIN Sub(fs0.ents, n_O) = {}
    /\ n_O \in rmdirs
    /\ n_O \notin DOMAIN fs.ents
    /\ moved # {}

\* C18: when the working directory is download_dir, every step of either file of the
\* repository is a step of the other from the same state to the same state: the same
\* moves, deletions and removals of directories, the same file system and counts.
C18_VariantsEquivalent ==
    [][cwdIsDl => (Next <=> NextTest)]_vars

\* C18 witness: main of test_4NSIKfilefix.py, run in download_dir, is over after a
\* move, a deletion and the removal of a directory
C18_Witness ==
    /\ variant = "test_4NSIKfilefix"
    /\ cwdIsDl
    /\ pc = "done"
    /\ summary.printed
    /\ moved # {}
    /\ deleted # {}
    /\ rmdirs # {}
=============================================================================
